---- MODULE Spec2Model ----
(***************************************************************************)
(* Model of the anomaly detection engine of weather_analysis_ai            *)
(* (src/app/anomaly.py, class AnomalyDetector) and of the two MongoDB      *)
(* collections it works on.                                                *)
(*                                                                         *)
(* Numbers.  Weather values are integers counting tenths of the unit (1    *)
(* is the float 0.1).  Means are fractions, standard deviations and        *)
(* z-scores are signed square roots of fractions, so the comparisons the   *)
(* code makes on floats (>= 2.0, >= 2.5, == max) are decided exactly:      *)
(*   [kind |-> "rat",  num, den]        num / den            (den > 0)     *)
(*   [kind |-> "surd", sgn, num, den]   sgn * sqrt(num/den)  (den > 0)     *)
(*   [kind |-> "ulp",  sgn]             a rounding residue, sgn * (1 ulp)  *)
(*   [kind |-> "nan"]                   float NaN                          *)
(*   [kind |-> "inf",  sgn]             float +/- infinity                 *)
(*   [kind |-> "none"]                  Python None                        *)
(* Rounding is modelled where it decides an outcome: the float mean of n   *)
(* equal values need not be that value (MeanResidue), which decides        *)
(* whether a deviation over a zero std is 0 / 0 or x / 0.  The datasets    *)
(* hold no month of equal non-zero values that calculate_mean is applied   *)
(* to.  The description string and the detected_at timestamp of an         *)
(* Anomaly are not modelled.                                               *)
(***************************************************************************)
EXTENDS Integers, Sequences, FiniteSets, TLC

(* ---------------------------- bounds ----------------------------------- *)
\* most records of calendar month 1 held for location "A"
MaxRecs == 10
\* most records of calendar month 2 held for location "A"
MaxM2 == 1
\* most detection runs in one behaviour
MaxRuns == 2

(* ----------------------- program constants ----------------------------- *)
\* thresholds on |z| of determine_severity, in halves (2.5, 2.0, 1.5)
ExtremeHalves == 5
HighHalves == 4
MediumHalves == 3
\* zscore_threshold = 2.0 of the primary path, in halves
zscore_threshold == 4
\* the |z| >= 2.0 gate of detect_extreme_events, in halves
ExtremeEventHalves == 4
\* the |z| >= 2.0 gate of detect_moving_average_anomalies, in halves
MovingAverageHalves == 4
\* a month needs this many records in detect_extreme_events
MinMonthRecords == 10
\* default window_size of detect_moving_average_anomalies
DefaultWindow == 10

Locs == {"A", "B", "C"}
\* the workers that serve POST /anomalies/detect side by side
Workers == {"w1", "w2"}

VARIABLES
    weather,    \* the weather_data collection: documents in natural order
    anomalies,  \* the anomalies collection: documents in insertion order
    nextId,     \* next storage _id the anomalies collection hands out
    runs,       \* number of detection runs made so far
    last,       \* what the last detection run did and returned
    pending     \* per worker: the run it is in the middle of, step by step

vars == <<weather, anomalies, nextId, runs, last, pending>>

(* ------------------------- number helpers ------------------------------ *)
None == [kind |-> "none"]
NaN == [kind |-> "nan"]
Sign(x) == IF x > 0 THEN 1 ELSE IF x < 0 THEN -1 ELSE 0
Abs(x) == IF x < 0 THEN -x ELSE x

RECURSIVE GCD(_, _)
GCD(a, b) == IF b = 0 THEN a ELSE GCD(b, a % b)

\* fractions and surds are kept in lowest terms, so equal numbers are equal values
Rat(n, d) ==
    LET g == GCD(Abs(n), d)
    IN [kind |-> "rat", num |-> n \div g, den |-> d \div g]
Surd(s, n, d) ==
    LET g == GCD(n, d)
    IN [kind |-> "surd", sgn |-> IF n = 0 THEN 0 ELSE s, num |-> n \div g, den |-> d \div g]
Inf(s) == [kind |-> "inf", sgn |-> s]
Ulp(s) == [kind |-> "ulp", sgn |-> s]

\* the values of a list are all the same
AllEqual(xs) == \A j \in 1..Len(xs) : xs[j] = xs[1]

\* the sign of fl(mean) - x for the float mean of n values equal to the float
\* x / 10 (|x| <= 9, n <= 12) as a groupby mean computes it: a compensated
\* sum, then sum / count (for n <= 5 a plain left-to-right sum rounds the
\* same).  Three times 0.1 sum to 0.30000000000000004, a third of which is
\* 0.10000000000000002
MeanResidue(x, n) ==
    LET a == Abs(x)
        r == IF a \in {1, 2, 4, 8} /\ n \in {3, 6, 12} THEN 1
             ELSE IF (a = 7 /\ n \in {3, 6, 12}) \/ (a = 9 /\ n = 9) THEN -1
             ELSE 0
    IN Sign(x) * r

\* a float is zero
IsZero(x) ==
    \/ x.kind = "rat" /\ x.num = 0
    \/ x.kind = "surd" /\ x.num = 0

\* abs(x) >= halves / 2 as the float comparison decides it (NaN compares false)
AbsGE(x, halves) ==
    CASE x.kind = "surd" -> 4 * x.num >= halves * halves * x.den
      [] x.kind = "rat"  -> 2 * Abs(x.num) >= halves * x.den
      [] x.kind = "inf"  -> TRUE
      [] OTHER           -> FALSE

\* Series.fillna(0): NaN becomes 0, everything else is kept
FillNa0(x) == IF x.kind = "nan" THEN Surd(0, 0, 1) ELSE x

\* pd.isna
IsNa(x) == x.kind = "nan"

\* a comprehension as a Python list: its items are computed once, here
List(s) == s \o <<>>

RECURSIVE SumSeq(_)
SumSeq(s) == IF s = <<>> THEN 0 ELSE Head(s) + SumSeq(Tail(s))

RECURSIVE MaxSeq(_)
MaxSeq(s) ==
    IF Len(s) = 1 THEN s[1]
    ELSE LET m == MaxSeq(Tail(s)) IN IF s[1] >= m THEN s[1] ELSE m

RECURSIVE MinSeq(_)
MinSeq(s) ==
    IF Len(s) = 1 THEN s[1]
    ELSE LET m == MinSeq(Tail(s)) IN IF s[1] <= m THEN s[1] ELSE m

\* sum over j of (n * xs[j] - sum(xs))^2  =  n^2 * sum of squared deviations
ScaledSS(xs) ==
    LET n == Len(xs)
        S == SumSeq(xs)
    IN SumSeq(List([j \in 1..n |-> (n * xs[j] - S) * (n * xs[j] - S)]))

(* --------------------------- StatsKernel ------------------------------- *)
\* calculate_mean: 0.0 for an empty list, else sum / len
calculate_mean(values) ==
    IF values = <<>> THEN Rat(0, 1) ELSE Rat(SumSeq(values), Len(values))

\* calculate_std: 0.0 for fewer than 2 values, else sqrt(SS / (n - 1))
calculate_std(values) ==
    LET n == Len(values) IN
    IF n < 2 THEN Surd(0, 0, 1)
    ELSE Surd(1, ScaledSS(values), n * n * (n - 1))

\* (variant: the quotient of the absolute deviation by std)
DivByStd_abs(value, mean, std) ==
    LET d == value * mean.den - mean.num
    IN Surd(1, d * d * std.den, mean.den * mean.den * std.num)

\* (value - mean) / std for an integer value, a "rat" mean and a non-zero
\* "surd" std:  ((v*md - mn)/md) / sqrt(sn/sd)
DivByStd(value, mean, std) ==
    LET d == value * mean.den - mean.num
    IN Surd(Sign(d), d * d * std.den, mean.den * mean.den * std.num)

\* calculate_z_score: 0 when std == 0
calculate_z_score(value, mean, std) ==
    IF IsZero(std) THEN Surd(0, 0, 1) ELSE DivByStd(value, mean, std)

\* (variant: the thresholds are compared with z_score itself, not with abs_z)
determine_severity_signed(z_score) ==
    LET GE(halves) ==
            CASE z_score.kind = "surd" ->
                    z_score.sgn > 0 /\ 4 * z_score.num >= halves * halves * z_score.den
              [] z_score.kind = "rat" -> 2 * z_score.num >= halves * z_score.den
              [] z_score.kind = "inf" -> z_score.sgn > 0
              [] OTHER -> FALSE
    IN IF GE(ExtremeHalves) THEN "extreme"
       ELSE IF GE(HighHalves) THEN "high"
       ELSE IF GE(MediumHalves) THEN "medium"
       ELSE "low"

\* determine_severity
determine_severity(z_score) ==
    IF AbsGE(z_score, ExtremeHalves) THEN "extreme"
    ELSE IF AbsGE(z_score, HighHalves) THEN "high"
    ELSE IF AbsGE(z_score, MediumHalves) THEN "medium"
    ELSE "low"

(* ------------------------ storage collaborator ------------------------- *)
\* stable insertion sort of documents by year ascending: cursor.sort("year", 1)
RECURSIVE InsertByYear(_, _)
InsertByYear(d, s) ==
    IF s = <<>> THEN <<d>>
    ELSE IF s[Len(s)].year <= d.year THEN Append(s, d)
    ELSE Append(InsertByYear(d, SubSeq(s, 1, Len(s) - 1)), s[Len(s)])

RECURSIVE SortByYear(_)
SortByYear(s) ==
    IF s = <<>> THEN <<>>
    ELSE InsertByYear(s[Len(s)], SortByYear(SubSeq(s, 1, Len(s) - 1)))

\* a find without the location filter
FindWeather_unfiltered(coll, location) == SortByYear(coll)

\* weather_collection.find({"location": location}).sort("year", 1)
FindWeather(coll, location) ==
    SortByYear(SelectSeq(coll, LAMBDA d : d.location = location))

\* what a find call hands to the code: the documents, or an exception
Fetched(coll, location, fails) ==
    IF fails THEN [ok |-> FALSE, docs |-> <<>>]
    ELSE [ok |-> TRUE, docs |-> FindWeather(coll, location)]

\* a run that does not clear the old anomalies
DeleteMany_nothing(coll, location) == coll

\* a run that clears the anomalies of every location
DeleteMany_all(coll, location) == <<>>

\* anomaly_collection.delete_many({"location": location})
DeleteMany(coll, location) ==
    SelectSeq(coll, LAMBDA d : d.location # location)

\* anomaly_collection.insert_many(docs): every document gets a fresh _id
InsertMany(coll, docs, first) ==
    coll \o List([i \in 1..Len(docs) |-> [_id |-> first + i - 1] @@ docs[i]])

(* ----------------------- primary (z-score) path ------------------------ *)

\* get_weather_dataframe: one row per document, empty on no data or on an exception
get_weather_dataframe(fetch) ==
    IF ~fetch.ok THEN <<>>
    ELSE List([i \in 1..Len(fetch.docs) |->
            LET record == fetch.docs[i] IN
            [_id |-> record._id, year |-> record.year, month |-> record.month,
             pr |-> record.pr_total, tasmax |-> record.tasmax_avg,
             tasmin |-> record.tasmin_avg, location |-> record.location]])

\* (variant: the mean of the rows before the last row of the group)
PandasMean_head(xs) ==
    IF Len(xs) < 2 THEN NaN ELSE Rat(SumSeq(SubSeq(xs, 1, Len(xs) - 1)), Len(xs) - 1)

\* Series.mean() of a group (a month without rows has no group; NaN stands there)
PandasMean(xs) == IF xs = <<>> THEN NaN ELSE Rat(SumSeq(xs), Len(xs))

\* df.groupby('month'): the values of the three columns, one entry per
\* calendar month 1..12
GroupBy(df) ==
    List([m \in 1..12 |->
        LET rows == SelectSeq(df, LAMBDA r : r.month = m)
        IN [pr |-> List([j \in 1..Len(rows) |-> rows[j].pr]),
            tasmax |-> List([j \in 1..Len(rows) |-> rows[j].tasmax]),
            tasmin |-> List([j \in 1..Len(rows) |-> rows[j].tasmin])]])

\* (variant: the mean over the rows of every month, without the groupby)
calculate_monthly_historical_averages_overall(df) ==
    LET all == [pr |-> PandasMean(List([j \in 1..Len(df) |-> df[j].pr])),
                tasmax |-> PandasMean(List([j \in 1..Len(df) |-> df[j].tasmax])),
                tasmin |-> PandasMean(List([j \in 1..Len(df) |-> df[j].tasmin]))]
    IN List([m \in 1..12 |-> all])

\* calculate_monthly_historical_averages: df.groupby('month').agg('mean')
calculate_monthly_historical_averages(df) ==
    LET groups == GroupBy(df)
    IN List([m \in 1..12 |->
        [pr |-> PandasMean(groups[m].pr),
         tasmax |-> PandasMean(groups[m].tasmax),
         tasmin |-> PandasMean(groups[m].tasmin)]])

\* the population std (ddof = 0) where the sample std (ddof = 1) is meant
PandasStd_ddof0(nums, den) ==
    LET n == Len(nums) IN
    IF n < 2 THEN NaN
    ELSE Surd(1, ScaledSS(nums), n * n * den * den * n)

\* Series.std() (ddof = 1) of the numbers nums[j] / den: NaN for fewer than 2
PandasStd(nums, den) ==
    LET n == Len(nums) IN
    IF n < 2 THEN NaN
    ELSE Surd(1, ScaledSS(nums), n * n * den * den * (n - 1))

\* Series / Series on floats, for the anomaly num / den + residue ulps:
\* x / NaN = NaN, 0 / 0 = NaN, x / 0 = +-inf
PandasDiv(num, residue, den, std) ==
    IF std.kind = "nan" THEN NaN
    ELSE IF std.num = 0
         THEN (IF num = 0 /\ residue = 0 THEN NaN
               ELSE Inf(IF num # 0 THEN Sign(num) ELSE residue))
    ELSE Surd(Sign(num), num * num * std.den, den * den * std.num)

\* (variant: the population std of the anomalies of one month's values)
AnomalyStd_ddof0(xs) ==
    LET n == Len(xs)
        S == SumSeq(xs)
    IN PandasStd_ddof0(List([j \in 1..n |-> n * xs[j] - S]), n)

\* the std of the anomalies value - monthly average of one month's values xs:
\* the anomalies are (n*x - S) / n for the n values with sum S (equal
\* anomalies, rounded or not, have std 0)
AnomalyStd(xs) ==
    LET n == Len(xs)
        S == SumSeq(xs)
    IN PandasStd(List([j \in 1..n |-> n * xs[j] - S]), n)

\* the columns calculate_anomalies_with_zscores adds to one row for one
\* variable: xs are the values of the row's month, avg and std the month's
\* entries of the two groupby tables
ZScoreColumns(value, xs, avg, std) ==
    LET n == Len(xs)
        anomaly == n * value - SumSeq(xs)
        \* value - fl(mean) where every value of the month is this value
        residue == IF AllEqual(xs) THEN -MeanResidue(value, n) ELSE 0
        zscore == PandasDiv(anomaly, residue, n, std)
    IN [monthly_avg_historical |-> avg,
        anomaly |-> IF anomaly = 0 /\ residue # 0 THEN Ulp(residue) ELSE Rat(anomaly, n),
        anomaly_std |-> std,
        anomaly_significant |-> AbsGE(zscore, zscore_threshold),
        anomaly_zscore |-> FillNa0(zscore)]

\* calculate_anomalies_with_zscores: the rows with the columns it adds
calculate_anomalies_with_zscores(df) ==
    LET monthly_averages == calculate_monthly_historical_averages(df)
        values == GroupBy(df)
        anomaly_std == List([m \in 1..12 |->
                    [pr |-> AnomalyStd(values[m].pr),
                     tasmax |-> AnomalyStd(values[m].tasmax),
                     tasmin |-> AnomalyStd(values[m].tasmin)]])
        cols(row, var) == ZScoreColumns(row[var], values[row.month][var],
                                        monthly_averages[row.month][var],
                                        anomaly_std[row.month][var])
    IN List([i \in 1..Len(df) |->
          [row |-> df[i],
           cols |-> [pr |-> cols(df[i], "pr"),
                     tasmax |-> cols(df[i], "tasmax"),
                     tasmin |-> cols(df[i], "tasmin")]]])

\* (variant: the kind of an anomaly is the name of its variable)
AnomalyType_metric(var) == var

AnomalyType(var) == IF var = "pr" THEN "precipitation" ELSE "temperature"
\* the precipitation branch passes no metric_type
MetricType(var) == IF var = "pr" THEN "None" ELSE var

\* the Anomaly one branch of get_notebook_style_anomalies builds
NotebookAnomaly(r, var, location) ==
    [weather_data_id |-> r.row._id,
     anomaly_type |-> AnomalyType(var),
     severity |-> determine_severity(r.cols[var].anomaly_zscore),
     value |-> r.row[var],
     expected_value |-> r.cols[var].monthly_avg_historical,
     deviation |-> r.cols[var].anomaly,
     z_score |-> r.cols[var].anomaly_zscore,
     location |-> location,
     monthly_historical_avg |-> r.cols[var].monthly_avg_historical,
     monthly_anomaly_std |-> r.cols[var].anomaly_std,
     is_significant |-> TRUE,
     metric_type |-> MetricType(var)]

\* the anomalies of one row: pr, then tasmax, then tasmin
RowAnomalies(r, location) ==
    LET one(var) ==
            IF r.cols[var].anomaly_significant /\ ~IsNa(r.cols[var].anomaly_zscore)
            THEN <<NotebookAnomaly(r, var, location)>> ELSE <<>>
    IN one("pr") \o one("tasmax") \o one("tasmin")

RECURSIVE Concat(_)
Concat(ss) == IF ss = <<>> THEN <<>> ELSE Head(ss) \o Concat(Tail(ss))

\* get_notebook_style_anomalies
get_notebook_style_anomalies(fetch, location) ==
    LET df == get_weather_dataframe(fetch) IN
    IF df = <<>> THEN <<>>
    ELSE LET df_anomalies == calculate_anomalies_with_zscores(df)
         IN Concat(List([i \in 1..Len(df_anomalies) |->
                                RowAnomalies(df_anomalies[i], location)]))

(* ----------------------- extreme-event detector ------------------------ *)
\* the months of the documents, each once, in order of first appearance
\* (the keys of the dict monthly_records)
RECURSIVE MonthsInOrder(_)
MonthsInOrder(docs) ==
    IF docs = <<>> THEN <<>>
    ELSE LET rest == MonthsInOrder(SubSeq(docs, 1, Len(docs) - 1))
             m == docs[Len(docs)].month
         IN IF \E i \in 1..Len(rest) : rest[i] = m THEN rest ELSE Append(rest, m)

\* the Anomaly detect_extreme_events builds: the notebook fields keep the
\* defaults of the Anomaly model (None, None, False, None)
ExtremeAnomaly(record, anomaly_type, extreme, mean, z_score, location) ==
    [weather_data_id |-> record._id,
     anomaly_type |-> anomaly_type,
     severity |-> "extreme",
     value |-> extreme,
     expected_value |-> mean,
     deviation |-> Rat(extreme * mean.den - mean.num, mean.den),
     z_score |-> z_score,
     location |-> location,
     monthly_historical_avg |-> None,
     monthly_anomaly_std |-> None,
     is_significant |-> FALSE,
     metric_type |-> "None"]

\* a check that takes the z-score over a zero std as 0 and flags the record
ExtremeCheck_flagging(record, field, extreme, values, anomaly_type, location) ==
    IF record[field] # extreme THEN [raised |-> FALSE, out |-> <<>>]
    ELSE LET mean == calculate_mean(values)
             std == calculate_std(values)
             z_score == calculate_z_score(extreme, mean, std)
         IN [raised |-> FALSE,
             out |-> IF IsZero(std) \/ AbsGE(z_score, ExtremeEventHalves)
                     THEN <<ExtremeAnomaly(record, anomaly_type, extreme, mean,
                                           z_score, location)>>
                     ELSE <<>>]

\* one of the three checks on one record: the record's value against the
\* month's extreme.  raised: the division by a zero std raised ZeroDivisionError
ExtremeCheck(record, field, extreme, values, anomaly_type, location) ==
    IF record[field] # extreme THEN [raised |-> FALSE, out |-> <<>>]
    ELSE LET mean == calculate_mean(values)
             std == calculate_std(values)
         IN IF IsZero(std) THEN [raised |-> TRUE, out |-> <<>>]
            ELSE LET z_score == DivByStd(extreme, mean, std)
                 IN [raised |-> FALSE,
                     out |-> IF AbsGE(z_score, ExtremeEventHalves)
                             THEN <<ExtremeAnomaly(record, anomaly_type, extreme, mean,
                                                   z_score, location)>>
                             ELSE <<>>]

\* the checks of one month without the guard on the number of its records
MonthExtremes_unguarded(records, location) ==
    IF records = <<>> THEN <<>>
    ELSE LET max_temps == List([j \in 1..Len(records) |-> records[j].tasmax_avg])
             min_temps == List([j \in 1..Len(records) |-> records[j].tasmin_avg])
             precips == List([j \in 1..Len(records) |-> records[j].pr_total])
             max_temp == MaxSeq(max_temps)
             min_temp == MinSeq(min_temps)
             max_precip == MaxSeq(precips)
         IN Concat(List([j \in 1..Len(records) |->
                <<ExtremeCheck(records[j], "tasmax_avg", max_temp, max_temps,
                               "temperature", location),
                  ExtremeCheck(records[j], "tasmin_avg", min_temp, min_temps,
                               "temperature", location),
                  ExtremeCheck(records[j], "pr_total", max_precip, precips,
                               "precipitation", location)>>]))

\* the checks of one month, record by record: high tasmax, low tasmin, high pr
MonthExtremes(records, location) ==
    IF Len(records) < MinMonthRecords THEN <<>>
    ELSE LET max_temps == List([j \in 1..Len(records) |-> records[j].tasmax_avg])
             min_temps == List([j \in 1..Len(records) |-> records[j].tasmin_avg])
             precips == List([j \in 1..Len(records) |-> records[j].pr_total])
             max_temp == MaxSeq(max_temps)
             min_temp == MinSeq(min_temps)
             max_precip == MaxSeq(precips)
         IN Concat(List([j \in 1..Len(records) |->
                <<ExtremeCheck(records[j], "tasmax_avg", max_temp, max_temps,
                               "temperature", location),
                  ExtremeCheck(records[j], "tasmin_avg", min_temp, min_temps,
                               "temperature", location),
                  ExtremeCheck(records[j], "pr_total", max_precip, precips,
                               "precipitation", location)>>]))

\* detect_extreme_events: an exception anywhere (the find call, a division by
\* zero) is caught and the function returns []
detect_extreme_events(fetch, location) ==
    IF ~fetch.ok \/ fetch.docs = <<>> THEN <<>>
    ELSE LET weather_data == fetch.docs
             months == MonthsInOrder(weather_data)
             checks == Concat(List([k \in 1..Len(months) |->
                          MonthExtremes(SelectSeq(weather_data,
                                            LAMBDA r : r.month = months[k]), location)]))
         IN IF \E c \in 1..Len(checks) : checks[c].raised THEN <<>>
            ELSE Concat(List([c \in 1..Len(checks) |-> checks[c].out]))

(* ---------------------------- persistence ------------------------------ *)
\* no deduplication at all
unique_anomalies_all(anomaly_dicts) == anomaly_dicts

\* a dedup that keeps the last anomaly of each key instead of the first
RECURSIVE unique_anomalies_last(_)
unique_anomalies_last(anomaly_dicts) ==
    IF anomaly_dicts = <<>> THEN <<>>
    ELSE LET rest == unique_anomalies_last(Tail(anomaly_dicts))
             a == Head(anomaly_dicts)
         IN IF \E i \in 1..Len(rest) :
                   /\ rest[i].weather_data_id = a.weather_data_id
                   /\ rest[i].anomaly_type = a.anomaly_type
            THEN rest ELSE <<a>> \o rest

\* the dedup loop of save_anomalies: the first anomaly of each
\* (weather_data_id, anomaly_type) key, in order
RECURSIVE unique_anomalies(_)
unique_anomalies(anomaly_dicts) ==
    IF anomaly_dicts = <<>> THEN <<>>
    ELSE LET n == Len(anomaly_dicts)
             rest == unique_anomalies(SubSeq(anomaly_dicts, 1, n - 1))
             a == anomaly_dicts[n]
         IN IF \E i \in 1..Len(rest) :
                   /\ rest[i].weather_data_id = a.weather_data_id
                   /\ rest[i].anomaly_type = a.anomaly_type
            THEN rest ELSE Append(rest, a)

\* a save whose failed insert_many leaves its first document stored
save_anomalies_partial(anomaly_list, insert_fails) ==
    IF anomaly_list = <<>>
    THEN [result |-> [success |-> TRUE, saved_count |-> 0], inserted |-> <<>>]
    ELSE LET unique == unique_anomalies(anomaly_list) IN
         IF insert_fails
         THEN [result |-> [success |-> FALSE, saved_count |-> 0],
               inserted |-> <<unique[1]>>]
         ELSE [result |-> [success |-> TRUE, saved_count |-> Len(unique)],
               inserted |-> unique]

\* save_anomalies: what it returns and the documents its insert_many call
\* stored (none when there is nothing to save or when the call raised)
save_anomalies(anomaly_list, insert_fails) ==
    IF anomaly_list = <<>>
    THEN [result |-> [success |-> TRUE, saved_count |-> 0], inserted |-> <<>>]
    ELSE LET unique == unique_anomalies(anomaly_list) IN
         IF insert_fails
         THEN [result |-> [success |-> FALSE, saved_count |-> 0], inserted |-> <<>>]
         ELSE [result |-> [success |-> TRUE, saved_count |-> Len(unique)],
               inserted |-> unique]

\* get_anomaly_timeseries_data, as the number of points of each series: one
\* per row of df_anomalies, which has the rows of df (0 stands for {}, returned
\* when there is no data or the find call raised)
get_anomaly_timeseries_data(fetch) ==
    Len(get_weather_dataframe(fetch))

(* ----------------------- moving-average detector ----------------------- *)
Max(a, b) == IF a >= b THEN a ELSE b
Min(a, b) == IF a <= b THEN a ELSE b

\* values[start:end] of the 0-based list values
Slice(values, start, end) == SubSeq(values, start + 1, end)

\* (variant: the window_size values that end at index i)
WindowData_trailing(values, i, window_size) ==
    Slice(values, Max(0, i - window_size), i + 1)

\* the window of 0-based index i
WindowData(values, i, window_size) ==
    Slice(values, Max(0, i - window_size \div 2),
          Min(Len(values), i + window_size \div 2 + 1))

MovingAverageAnomaly(record, current_temp, ma_temp, z_score, location) ==
    [weather_data_id |-> record._id,
     anomaly_type |-> "temperature",
     severity |-> determine_severity(z_score),
     value |-> current_temp,
     expected_value |-> ma_temp,
     deviation |-> Rat(current_temp * ma_temp.den - ma_temp.num, ma_temp.den),
     z_score |-> z_score,
     location |-> location,
     monthly_historical_avg |-> None,
     monthly_anomaly_std |-> None,
     is_significant |-> FALSE,
     metric_type |-> "None"]

\* the body of the second loop for 0-based index i
MovingAverageCheck(weather_data, values, i, window_size, location) ==
    LET window_data == WindowData(values, i, window_size)
        ma_temp == calculate_mean(window_data)
        ma_std == calculate_std(window_data)
        current_temp == values[i + 1]
    IN IF IsZero(ma_std) THEN <<>>
       ELSE LET z_score == DivByStd(current_temp, ma_temp, ma_std)
            IN IF AbsGE(z_score, MovingAverageHalves)
               THEN <<MovingAverageAnomaly(weather_data[i + 1], current_temp, ma_temp,
                                           z_score, location)>>
               ELSE <<>>

\* (variant: the series is tasmax_avg, which every document carries)
detect_moving_average_anomalies_tasmax(fetch, location, window_size) ==
    IF ~fetch.ok THEN <<>>
    ELSE LET weather_data == fetch.docs
             n == Len(weather_data)
             values == List([j \in 1..n |-> weather_data[j].tasmax_avg])
         IN Concat(List([k \in 1..Max(0, n - 2 * window_size) |->
                MovingAverageCheck(weather_data, values, window_size + k - 1,
                                   window_size, location)]))

\* (variant: the second loop goes over every index of the series)
detect_moving_average_anomalies_all(fetch, location, window_size) ==
    IF ~fetch.ok THEN <<>>
    ELSE LET weather_data == fetch.docs
             n == Len(weather_data)
         IN IF n < window_size THEN <<>>
            ELSE IF \E j \in 1..n : "tas_avg" \notin DOMAIN weather_data[j] THEN <<>>
            ELSE LET values == List([j \in 1..n |-> weather_data[j].tas_avg])
                 IN Concat(List([k \in 1..n |->
                        MovingAverageCheck(weather_data, values, k - 1,
                                           window_size, location)]))

\* detect_moving_average_anomalies, for window_size >= 1: an exception (the
\* find call, a document without tas_avg after the first) is caught and the
\* function returns []
detect_moving_average_anomalies(fetch, location, window_size) ==
    IF ~fetch.ok THEN <<>>
    ELSE LET weather_data == fetch.docs
             n == Len(weather_data)
         IN IF n < window_size THEN <<>>
            ELSE IF "tas_avg" \notin DOMAIN weather_data[1] THEN <<>>
            ELSE IF \E j \in 1..n : "tas_avg" \notin DOMAIN weather_data[j] THEN <<>>
            ELSE LET values == List([j \in 1..n |-> weather_data[j].tas_avg])
                 IN Concat(List([k \in 1..Max(0, n - 2 * window_size) |->
                        MovingAverageCheck(weather_data, values, window_size + k - 1,
                                           window_size, location)]))

(* ------------------------- detection pipeline -------------------------- *)
\* the storage calls of one run that can raise
Calls == {"delete_many", "find_notebook", "find_extreme", "insert_many", "find_timeseries"}

\* the faults of one run: no call raises, or one does
Faults == {{}} \cup {{c} : c \in Calls}

\* run_full_anomaly_detection(location) on the collections weather_coll and
\* anomaly_coll, with the storage calls in faults raising: the anomalies
\* collection it leaves, and what it computed and returned
run_full_anomaly_detection(weather_coll, anomaly_coll, first_id, location, faults) ==
    IF "delete_many" \in faults
    THEN [anomaly_coll |-> anomaly_coll,
          notebook_anomalies |-> <<>>, extreme_events |-> <<>>, inserted |-> <<>>,
          result |-> [success |-> FALSE, error |-> "delete_many"]]
    ELSE LET cleared == DeleteMany(anomaly_coll, location)
             notebook_anomalies ==
                 get_notebook_style_anomalies(
                     Fetched(weather_coll, location, "find_notebook" \in faults), location)
             extreme_events ==
                 detect_extreme_events(
                     Fetched(weather_coll, location, "find_extreme" \in faults), location)
             all_anomalies == notebook_anomalies \o extreme_events
             save == save_anomalies(all_anomalies, "insert_many" \in faults)
             timeseries_data ==
                 get_anomaly_timeseries_data(
                     Fetched(weather_coll, location, "find_timeseries" \in faults))
         IN [anomaly_coll |-> InsertMany(cleared, save.inserted, first_id),
             notebook_anomalies |-> notebook_anomalies,
             extreme_events |-> extreme_events,
             inserted |-> save.inserted,
             result |-> [success |-> TRUE,
                         total_detected |-> Len(all_anomalies),
                         notebook_anomalies_count |-> Len(notebook_anomalies),
                         extreme_events_count |-> Len(extreme_events),
                         save_result |-> save.result,
                         timeseries_data |-> timeseries_data]]

(* ------------------------------ datasets ------------------------------- *)
\* the document ingest_historical_data stores for one CSV row
WeatherDoc(id, year, month, pr, tasmax, tasmin, location) ==
    [_id |-> id, year |-> year, month |-> month, pr_total |-> pr,
     tasmax_avg |-> tasmax, tasmin_avg |-> tasmin,
     tas_avg |-> (tasmax + tasmin) \div 2, location |-> location]

\* what the records of month 1 hold: tasmax of the first two records, the
\* record whose tasmin is -2 and the record whose pr is 3 (0: none); every
\* other value is 0
Profiles ==
    { [tmax |-> <<0, 0>>,  tminAt |-> 0, prAt |-> 0],
      [tmax |-> <<2, 0>>,  tminAt |-> 1, prAt |-> 1],
      [tmax |-> <<2, 0>>,  tminAt |-> 2, prAt |-> 0],
      [tmax |-> <<6, 4>>,  tminAt |-> 0, prAt |-> 3],
      [tmax |-> <<2, 2>>,  tminAt |-> 1, prAt |-> 0],
      [tmax |-> <<-2, 0>>, tminAt |-> 0, prAt |-> 1] }

\* location "A": n1 records of month 1 (years 1..n1), then n2 equal records of
\* month 2 (years 1..n2), in this natural order
DatasetA(n1, n2, p) ==
    [k \in 1..n1 |->
        WeatherDoc(k, k, 1,
                   IF k = p.prAt THEN 3 ELSE 0,
                   IF k <= 2 THEN p.tmax[k] ELSE 0,
                   IF k = p.tminAt THEN -2 ELSE 0, "A")]
    \o [j \in 1..n2 |-> WeatherDoc(50 + j, j, 2, 1, 2, 0, "A")]

\* location "B": six records of month 3, the first with a high tasmax
DatasetB == [k \in 1..6 |-> WeatherDoc(100 + k, k, 3, 0, IF k = 1 THEN 2 ELSE 0, 0, "B")]

\* location "C": three records of month 4 with the same pr, 0.1
DatasetC == [k \in 1..3 |-> WeatherDoc(200 + k, k, 4, 1, 0, 0, "C")]

(* ---------------------------- state machine ---------------------------- *)
\* a worker that is in no run
Idle == [pc |-> "idle"]

Init ==
    /\ \E n1 \in 0..MaxRecs, n2 \in 0..MaxM2, p \in Profiles :
            weather = DatasetB \o DatasetC \o DatasetA(n1, n2, p)
    /\ anomalies = <<>>
    /\ nextId = 1
    /\ runs = 0
    /\ last = [op |-> "none"]
    /\ pending = [w \in Workers |-> Idle]

\* POST /anomalies/detect: one whole run of run_full_anomaly_detection
Detect(location, faults) ==
    /\ runs < MaxRuns
    /\ \E r \in {run_full_anomaly_detection(weather, anomalies, nextId, location, faults)} :
          /\ anomalies' = r.anomaly_coll
          /\ nextId' = nextId + Len(r.inserted)
          /\ last' = [op |-> "run_full_anomaly_detection",
                      location |-> location,
                      faults |-> faults,
                      before |-> anomalies,
                      notebook_anomalies |-> r.notebook_anomalies,
                      extreme_events |-> r.extreme_events,
                      inserted |-> r.inserted,
                      result |-> r.result]
    /\ runs' = runs + 1
    /\ UNCHANGED <<weather, pending>>

\* a call of detect_moving_average_anomalies(location, window_size).  The
\* detector reads the weather collection only, which no run changes, so it is
\* called before the first run
MovingAverage(location, window_size, fails) ==
    /\ runs = 0
    /\ last' = [op |-> "detect_moving_average_anomalies",
                location |-> location,
                window_size |-> window_size,
                fails |-> fails,
                out |-> detect_moving_average_anomalies(
                            Fetched(weather, location, fails), location, window_size)]
    /\ UNCHANGED <<weather, anomalies, nextId, runs, pending>>

Next ==
    \/ \E location \in Locs, faults \in Faults : Detect(location, faults)
    \/ \E location \in Locs, window_size \in {DefaultWindow}, fails \in BOOLEAN :
          MovingAverage(location, window_size, fails)

Spec == Init /\ [][Next]_vars

(* ------------------- runs of several workers, step by step ------------- *)
\* the anomalies collection after clean runs for the locations of a list, one
\* after the other: [coll, next]
RECURSIVE AfterRuns(_)
AfterRuns(locations) ==
    IF locations = <<>> THEN [coll |-> <<>>, next |-> 1]
    ELSE LET before == AfterRuns(SubSeq(locations, 1, Len(locations) - 1))
             r == run_full_anomaly_detection(weather, before.coll, before.next,
                                             locations[Len(locations)], {})
         IN [coll |-> r.anomaly_coll, next |-> before.next + Len(r.inserted)]

\* weather as ingested, anomalies as earlier runs left them, no run under way
InitWorkers ==
    /\ \E n1 \in {0, 6, MinMonthRecords}, p \in Profiles :
            weather = DatasetB \o DatasetC \o DatasetA(n1, 0, p)
    /\ \E earlier \in {<<>>, <<"A">>, <<"B", "A">>} :
          /\ anomalies = AfterRuns(earlier).coll
          /\ nextId = AfterRuns(earlier).next
    /\ runs = 0
    /\ last = [op |-> "none"]
    /\ pending = [w \in Workers |-> Idle]

\* a worker starts run_full_anomaly_detection(location): delete_many
Clear(w, location) ==
    /\ pending[w].pc = "idle"
    /\ anomalies' = DeleteMany(anomalies, location)
    /\ pending' = [pending EXCEPT ![w] =
                      [pc |-> "cleared", location |-> location]]
    /\ UNCHANGED <<weather, nextId, runs, last>>

\* the worker computes the two anomaly lists from the weather records
Compute(w) ==
    /\ pending[w].pc = "cleared"
    /\ \E location \in {pending[w].location} :
          pending' = [pending EXCEPT ![w] =
              [pc |-> "computed", location |-> location,
               all_anomalies |->
                   get_notebook_style_anomalies(Fetched(weather, location, FALSE), location)
                   \o detect_extreme_events(Fetched(weather, location, FALSE), location)]]
    /\ UNCHANGED <<weather, anomalies, nextId, runs, last>>

\* the worker's save_anomalies: insert_many.  during records the workers
\* whose run has cleared and not yet inserted at this moment
Insert(w) ==
    /\ pending[w].pc = "computed"
    /\ \E save \in {save_anomalies(pending[w].all_anomalies, FALSE)} :
          /\ anomalies' = InsertMany(anomalies, save.inserted, nextId)
          /\ nextId' = nextId + Len(save.inserted)
          /\ pending' = [pending EXCEPT ![w] =
                [pc |-> "done", location |-> pending[w].location,
                 during |-> {v \in Workers \ {w} :
                                pending[v].pc \in {"cleared", "computed"}},
                 inserted |-> save.inserted]]
    /\ UNCHANGED <<weather, runs, last>>

NextWorkers ==
    \/ \E w \in Workers, location \in Locs : Clear(w, location)
    \/ \E w \in Workers : Compute(w)
    \/ \E w \in Workers : Insert(w)

SpecWorkers == InitWorkers /\ [][NextWorkers]_vars

(* ------------------ the moving-average detector alone ------------------ *)
\* the longest series
MaxSeries == 21

\* the window sizes of the calls
Windows == {1, 2, 3, 6, 8, DefaultWindow}

\* a document of the collection that was stored without the tas_avg field
WithoutTasAvg(d) == [f \in DOMAIN d \ {"tas_avg"} |-> d[f]]

\* location "A": a series of n records in year order whose temperatures are 0
\* but for x at 0-based position a and y at position b; carried tells which
\* documents carry tas_avg
Series(n, a, x, b, y, carried) ==
    [k \in 1..n |->
        LET t == IF k - 1 = a THEN x ELSE IF k - 1 = b THEN y ELSE 0
            d == WeatherDoc(300 + k, k, 1, 0, t, t, "A")
        IN CASE carried = "all" -> d
             [] carried = "none" -> WithoutTasAvg(d)
             [] carried = "first" -> IF k = 1 THEN d ELSE WithoutTasAvg(d)
             [] carried = "rest" -> IF k = 1 THEN WithoutTasAvg(d) ELSE d]

InitMA ==
    /\ \E n \in {5, 7, 13, 15, 17, MaxSeries}, carried \in {"all", "none", "first", "rest"} :
       \E a \in 0..(n - 1), x \in {5, -5}, gap \in {1, 2}, y \in {-5, 0, 2, 5} :
            weather = DatasetB \o Series(n, a, x, a + gap, y, carried)
    /\ anomalies = <<>>
    /\ nextId = 1
    /\ runs = 0
    /\ last = [op |-> "none"]
    /\ pending = [w \in Workers |-> Idle]

\* one call in each behaviour: a call changes nothing a later call reads
NextMA ==
    \E location \in Locs, window_size \in Windows, fails \in BOOLEAN :
        last.op = "none" /\ MovingAverage(location, window_size, fails)

SpecMA == InitMA /\ [][NextMA]_vars

(* ----------------------- the severity classifier alone ----------------- *)
\* the largest |z| of the inputs, in eighths
MaxEighths == 28

\* the z-scores the classifier is applied to: multiples of 1/8, square roots
\* of multiples of 1/4, the infinities and NaN
ZScores ==
    {Rat(q, 8) : q \in -MaxEighths..MaxEighths}
    \cup {Surd(sgn, k, 4) : sgn \in {-1, 1}, k \in 0..MaxEighths}
    \cup {Inf(1), Inf(-1), NaN}

InitSeverity ==
    /\ weather = <<>>
    /\ anomalies = <<>>
    /\ nextId = 1
    /\ runs = 0
    /\ \E z_score \in ZScores, other \in ZScores :
          last = [op |-> "none", z_score |-> z_score, other |-> other]
    /\ pending = [w \in Workers |-> Idle]

\* determine_severity applied to the two z-scores
Classify ==
    /\ last.op = "none"
    /\ last' = [op |-> "determine_severity",
                z_score |-> last.z_score, other |-> last.other,
                severity |-> determine_severity(last.z_score),
                other_severity |-> determine_severity(last.other)]
    /\ UNCHANGED <<weather, anomalies, nextId, runs, pending>>

NextSeverity == Classify

SpecSeverity == InitSeverity /\ [][NextSeverity]_vars

(* ------------------- the records in another stored order -------------- *)
\* the documents with the years of several of them made equal: as they are
\* ("each"), or all in one year ("one")
WithYears(docs, mode) ==
    [k \in 1..Len(docs) |->
        [docs[k] EXCEPT !.year = IF mode = "one" THEN 1 ELSE docs[k].year]]

\* location "B": n monthly records, two per year (month 1, then month 2),
\* whose temperatures are 0 but for x at 0-based position a; 2 * 6 + 1 records
\* are the fewest that have an interior index under window size 6
MonthlySeries(n, a, x) ==
    [k \in 1..n |->
        LET t == IF k - 1 = a THEN x ELSE 0
        IN WeatherDoc(400 + k, (k + 1) \div 2, 2 - (k % 2), 0, t, t, "B")]

\* the window size of the calls on the monthly series
SeriesWindows == {6}

\* orders in which n rows can have been inserted: each rotation, the
\* reversal, and each exchange of two neighbours
Orders(n) ==
    {[i \in 1..n |-> ((i + k - 1) % n) + 1] : k \in 0..(n - 1)}
    \cup {[i \in 1..n |-> n + 1 - i]}
    \cup {[i \in 1..n |-> IF i = j THEN j + 1 ELSE IF i = j + 1 THEN j ELSE i] :
                j \in 1..(n - 1)}

\* the documents in the order a permutation gives
Permuted(docs, order) == [i \in 1..Len(docs) |-> docs[order[i]]]

InitOrder ==
    /\ \E n1 \in {6, MaxRecs}, p \in Profiles, mode \in {"each", "one"},
          at \in {<<5, 5>>, <<6, 5>>, <<6, -5>>, <<7, 5>>} :
       \E docs \in {WithYears(DatasetA(n1, 1, p), mode)
                        \o MonthlySeries(2 * 6 + 1, at[1], at[2])} :
       \E order \in Orders(Len(docs)) :
            weather = Permuted(docs, order)
    /\ anomalies = <<>>
    /\ nextId = 1
    /\ runs = 0
    /\ last = [op |-> "none"]
    /\ pending = [w \in Workers |-> Idle]

NextOrder ==
    \/ \E location \in {"A", "B"} : Detect(location, {})
    \/ \E window_size \in SeriesWindows : MovingAverage("B", window_size, FALSE)

SpecOrder == InitOrder /\ [][NextOrder]_vars

(* ======================================================================= *)
(* Properties                                                              *)
(* ======================================================================= *)
RunDone == last.op = "run_full_anomaly_detection"
\* the last call was a run in which no storage call raised
CleanRun == RunDone /\ last.faults = {}
\* the last call was a run whose delete_many and find of the primary path worked
PrimaryRan == RunDone /\ "delete_many" \notin last.faults /\ "find_notebook" \notin last.faults
\* the last call was a run whose delete_many and insert_many did not raise
StorageWorked ==
    RunDone /\ "delete_many" \notin last.faults /\ "insert_many" \notin last.faults

\* the documents of a collection held for a location
DocsOf(coll, location) == SelectSeq(coll, LAMBDA d : d.location = location)
\* a stored document without its storage _id
Content(d) == [f \in DOMAIN d \ {"_id"} |-> d[f]]
SameKey(a, b) ==
    a.weather_data_id = b.weather_data_id /\ a.anomaly_type = b.anomaly_type
\* the anomalies of a list that are about variable var of record id
About(list, id, var) ==
    SelectSeq(list, LAMBDA a :
        /\ a.weather_data_id = id
        /\ IF var = "pr" THEN a.anomaly_type = "precipitation" ELSE a.metric_type = var)
Field(var) == CASE var = "pr" -> "pr_total" [] var = "tasmax" -> "tasmax_avg"
                [] var = "tasmin" -> "tasmin_avg"
\* the values of a variable over the records of a record's location and month
MonthValues(d, var) ==
    LET same == SelectSeq(weather, LAMBDA e : e.location = d.location /\ e.month = d.month)
    IN List([j \in 1..Len(same) |-> same[j][Field(var)]])
\* n * (value - monthly mean), for the n values xs of the month
ScaledDev(v, xs) == Len(xs) * v - SumSeq(xs)
\* n^2 * (sum of squares of the month's deviations about their own mean)
DevSS(xs) ==
    LET n == Len(xs)
        devs == List([j \in 1..n |-> ScaledDev(xs[j], xs)])
    IN SumSeq(List([j \in 1..n |->
           (n * devs[j] - SumSeq(devs)) * (n * devs[j] - SumSeq(devs))])) \div (n * n)
\* |z| >= halves / 2 for z = (v - mean) / sqrt(sum of squared deviations / (n - 1)),
\* defined when the month has two records or more and a non-zero std
ZDefined(xs) == Len(xs) >= 2 /\ DevSS(xs) > 0
\* the float quotient is infinite: a rounded mean over a zero std
ZInfinite(v, xs) == Len(xs) >= 2 /\ AllEqual(xs) /\ MeanResidue(v, Len(xs)) # 0
ZAtLeast(v, xs, halves) ==
    \/ /\ ZDefined(xs)
       /\ 4 * ScaledDev(v, xs) * ScaledDev(v, xs) * (Len(xs) - 1)
              >= halves * halves * DevSS(xs)
    \/ ZInfinite(v, xs)

Scored(location) ==
    calculate_anomalies_with_zscores(get_weather_dataframe(Fetched(weather, location, FALSE)))
\* the values of a variable over the scored rows of month m
ScoredValues(dfa, m, var) ==
    LET same == SelectSeq(dfa, LAMBDA r : r.row.month = m)
    IN List([j \in 1..Len(same) |-> same[j].row[var]])

\* C2: when a month's values of a variable are all equal, or the month has
\* fewer than 2 records, the primary path of a run gives every record of that
\* month a z-score of 0 for the variable, marks none significant and emits no
\* anomaly for it; every emitted z-score is a finite number
C2_ZeroVariance ==
    PrimaryRan =>
        /\ \A dfa \in {Scored(last.location)} :
              \A i \in 1..Len(dfa) : \A var \in {"pr", "tasmax", "tasmin"} :
                  LET xs == ScoredValues(dfa, dfa[i].row.month, var)
                  IN (Len(xs) < 2 \/ AllEqual(xs)) =>
                        /\ dfa[i].cols[var].anomaly_zscore = Surd(0, 0, 1)
                        /\ ~dfa[i].cols[var].anomaly_significant
                        /\ About(last.notebook_anomalies, dfa[i].row._id, var) = <<>>
        /\ \A k \in 1..Len(last.notebook_anomalies) :
              last.notebook_anomalies[k].z_score.kind = "surd"

\* C3: after a run whose delete and insert calls worked, the anomalies stored
\* for the location are exactly the deduplicated union of the run's
\* primary-path and extreme-event anomalies (each key once, nothing else), and
\* no document stored before the run is still stored for the location
C3_Overwrite ==
    StorageWorked =>
        LET union == last.notebook_anomalies \o last.extreme_events
            stored == DocsOf(anomalies, last.location)
        IN /\ \A i \in 1..Len(stored) :
                 \E k \in 1..Len(union) : Content(stored[i]) = union[k]
           /\ \A k \in 1..Len(union) :
                 Cardinality({i \in 1..Len(stored) : SameKey(stored[i], union[k])}) = 1
           /\ \A i \in 1..Len(stored) : \A j \in 1..Len(last.before) :
                 stored[i]._id # last.before[j]._id

\* a clean run over a location that held anomalies before, storing a union
\* with extreme events in it
C3_Witness ==
    /\ CleanRun
    /\ DocsOf(last.before, last.location) # <<>>
    /\ last.extreme_events # <<>>
    /\ DocsOf(anomalies, last.location) # <<>>

\* C4: the store never holds two anomalies of one location with the same
\* (weather_data_id, anomaly_type), and what a run's save_anomalies inserted
\* holds every key of its input exactly once
C4_Dedup ==
    /\ \A i, j \in 1..Len(anomalies) :
          (i # j /\ anomalies[i].location = anomalies[j].location)
              => ~SameKey(anomalies[i], anomalies[j])
    /\ StorageWorked =>
          LET union == last.notebook_anomalies \o last.extreme_events
          IN \A k \in 1..Len(union) :
                Cardinality({i \in 1..Len(last.inserted) :
                                SameKey(last.inserted[i], union[k])}) = 1

\* a second run stored fewer anomalies than it detected
C4_Witness ==
    /\ StorageWorked
    /\ runs = MaxRuns
    /\ Len(last.inserted) > 0
    /\ Len(last.inserted) < Len(last.notebook_anomalies) + Len(last.extreme_events)
    /\ DocsOf(last.before, last.location) # <<>>

\* C5: of the anomalies of a run that share a key the first of the union is
\* the one stored; a record significant on tasmax and tasmin is stored once
\* under kind temperature, as the tasmax anomaly; a primary-path anomaly is
\* never displaced by an extreme-event anomaly of its key
C5_TieBreak ==
    StorageWorked =>
        LET union == last.notebook_anomalies \o last.extreme_events
            stored == DocsOf(anomalies, last.location)
        IN /\ \A i \in 1..Len(stored) :
                 \E k \in 1..Len(union) :
                    /\ Content(stored[i]) = union[k]
                    /\ \A h \in 1..(k - 1) : ~SameKey(union[h], union[k])
           /\ \A i \in 1..Len(weather) :
                 LET id == weather[i]._id IN
                 (/\ About(last.notebook_anomalies, id, "tasmax") # <<>>
                  /\ About(last.notebook_anomalies, id, "tasmin") # <<>>)
                 => \E s \in 1..Len(stored) :
                       /\ Content(stored[s]) = About(last.notebook_anomalies, id, "tasmax")[1]
                       /\ \A t \in 1..Len(stored) :
                             (stored[t].weather_data_id = id
                              /\ stored[t].anomaly_type = "temperature") => t = s
           /\ \A i \in 1..Len(stored) :
                 (\E k \in 1..Len(last.notebook_anomalies) :
                        SameKey(last.notebook_anomalies[k], stored[i]))
                 => \E k \in 1..Len(last.notebook_anomalies) :
                        Content(stored[i]) = last.notebook_anomalies[k]

\* a run in which one record was significant on tasmax and tasmin and was an
\* extreme event too
C5_Witness ==
    /\ StorageWorked
    /\ \E i \in 1..Len(weather) :
          /\ About(last.notebook_anomalies, weather[i]._id, "tasmax") # <<>>
          /\ About(last.notebook_anomalies, weather[i]._id, "tasmin") # <<>>
          /\ \E k \in 1..Len(last.extreme_events) :
                /\ last.extreme_events[k].weather_data_id = weather[i]._id
                /\ last.extreme_events[k].anomaly_type = "temperature"

\* the anomalies a collection holds for a location, without their storage ids
ContentsOf(coll, location) ==
    LET docs == DocsOf(coll, location)
    IN List([i \in 1..Len(docs) |-> Content(docs[i])])

\* C6: a run without storage failures that follows a run without storage
\* failures of the same location, over the same weather records, leaves the
\* same anomalies stored for the location (storage ids aside)
C6_Idempotent ==
    [][(/\ CleanRun
        /\ CleanRun'
        /\ runs' = runs + 1
        /\ weather' = weather
        /\ last'.location = last.location)
       => ContentsOf(anomalies', last.location) = ContentsOf(anomalies, last.location)]_vars

\* a second run stored again what was stored for the location before it,
\* extreme events included
C6_Witness ==
    /\ CleanRun
    /\ runs = MaxRuns
    /\ last.extreme_events # <<>>
    /\ last.notebook_anomalies # <<>>
    /\ DocsOf(last.before, last.location) # <<>>
    /\ ContentsOf(last.before, last.location) = ContentsOf(anomalies, last.location)

\* the run's insert_many call was made and raised
InsertRaised ==
    /\ RunDone
    /\ "insert_many" \in last.faults
    /\ last.notebook_anomalies \o last.extreme_events # <<>>
\* the run's delete_many call raised
DeleteRaised == RunDone /\ "delete_many" \in last.faults

\* C7: a run whose delete_many or insert_many call raised returns
\* success = False
C7_FailureReported ==
    (DeleteRaised \/ InsertRaised) => last.result.success = FALSE

\* C8 as stated: after a run whose delete or insert call raised nothing the
\* run computed is stored and the result's save_result reports saved_count 0
C8_AsStated ==
    (DeleteRaised \/ InsertRaised) =>
        /\ last.inserted = <<>>
        /\ "save_result" \in DOMAIN last.result
        /\ last.result.save_result.saved_count = 0

\* C8: after a run whose insert call raised (the call storing all or nothing)
\* no anomaly is stored for the location and save_result reports failure with
\* saved_count 0; after a run whose delete call raised nothing was computed or
\* stored, the collection is as it was, and the result is a failure that
\* carries no save_result
C8_NothingStored ==
    /\ InsertRaised =>
          /\ last.inserted = <<>>
          /\ DocsOf(anomalies, last.location) = <<>>
          /\ last.result.save_result = [success |-> FALSE, saved_count |-> 0]
          /\ \A location \in Locs \ {last.location} :
                DocsOf(anomalies, location) = DocsOf(last.before, location)
    /\ DeleteRaised =>
          /\ last.inserted = <<>>
          /\ last.notebook_anomalies \o last.extreme_events = <<>>
          /\ anomalies = last.before
          /\ last.result.success = FALSE
          /\ "save_result" \notin DOMAIN last.result

\* an insert call raised in a run over a location that held anomalies, while
\* the other location's anomalies were stored
C8_Witness ==
    /\ InsertRaised
    /\ DocsOf(last.before, last.location) # <<>>
    /\ Len(last.notebook_anomalies \o last.extreme_events) > 1

\* C9: a run in which a find call for the weather records raised does not
\* return success
C9_FetchFailureReported ==
    (RunDone /\ last.faults \cap {"find_notebook", "find_extreme", "find_timeseries"} # {})
        => last.result.success = FALSE

\* the weather collection holds no record of the location
NoRecords(location) == \A i \in 1..Len(weather) : weather[i].location # location

\* C10: for a location without weather records the moving-average detector
\* returns an empty list, and a run without storage failures detects nothing
\* on either path, returns success with total_detected 0 and saved_count 0,
\* and leaves no anomaly stored for the location
C10_EmptyInput ==
    /\ (/\ last.op = "detect_moving_average_anomalies"
        /\ ~last.fails
        /\ NoRecords(last.location))
       => last.out = <<>>
    /\ (CleanRun /\ NoRecords(last.location)) =>
          /\ last.notebook_anomalies = <<>>
          /\ last.extreme_events = <<>>
          /\ last.result.success
          /\ last.result.total_detected = 0
          /\ last.result.save_result = [success |-> TRUE, saved_count |-> 0]
          /\ last.inserted = <<>>
          /\ DocsOf(anomalies, last.location) = <<>>

\* a run over a location without records, while the other location's
\* anomalies are stored
C10_Witness ==
    /\ CleanRun
    /\ NoRecords(last.location)
    /\ anomalies # <<>>

(* ----------------------- extreme-event detector ------------------------ *)
\* the last call was a run whose delete_many and find of detect_extreme_events worked
ExtremeRan == RunDone /\ "delete_many" \notin last.faults /\ "find_extreme" \notin last.faults
\* the weather record with a storage id
RecordOf(id) == CHOOSE d \in {weather[i] : i \in 1..Len(weather)} : d._id = id
\* the records of a list that share the calendar month of d
SameMonth(docs, d) == SelectSeq(docs, LAMBDA e : e.month = d.month)
\* the records of a list whose calendar month has MinMonthRecords records or more
LongMonths(docs) == SelectSeq(docs, LAMBDA d : Len(SameMonth(docs, d)) >= MinMonthRecords)

\* C11: an extreme-event anomaly is never about a record whose calendar month
\* has fewer than 10 records for the location, and the months of fewer than
\* 10 records change nothing in what is emitted for the other months
C11_SampleGuard ==
    ExtremeRan =>
        \A docs \in {FindWeather(weather, last.location)} :
            /\ \A k \in 1..Len(last.extreme_events) :
                  Len(SameMonth(docs, RecordOf(last.extreme_events[k].weather_data_id)))
                      >= MinMonthRecords
            /\ last.extreme_events =
                  detect_extreme_events([ok |-> TRUE, docs |-> LongMonths(docs)],
                                        last.location)

\* a run emitted extreme events for a location that also has a month of
\* fewer than 10 records
C11_Witness ==
    /\ ExtremeRan
    /\ last.extreme_events # <<>>
    /\ \E i \in 1..Len(weather) :
          /\ weather[i].location = last.location
          /\ Len(SameMonth(FindWeather(weather, last.location), weather[i])) < MinMonthRecords

\* |z| >= halves / 2 for the z-score of v against the raw mean and the sample
\* std of xs, which is defined when the std is not 0
RawZAtLeast(v, xs, halves) ==
    /\ Len(xs) >= 2
    /\ DevSS(xs) > 0
    /\ 4 * ScaledDev(v, xs) * ScaledDev(v, xs) * (Len(xs) - 1) >= halves * halves * DevSS(xs)
\* the values of a field over a list of records
FieldValues(docs, field) == List([j \in 1..Len(docs) |-> docs[j][field]])
\* record d passes the check of a field: it holds the month's extreme (the
\* maximum, or the minimum for tasmin) and the extreme's |z| is >= 2.0
PassesCheck(d, month, field) ==
    LET xs == FieldValues(month, field)
        extreme == IF field = "tasmin_avg" THEN MinSeq(xs) ELSE MaxSeq(xs)
    IN d[field] = extreme /\ RawZAtLeast(extreme, xs, ExtremeEventHalves)
\* the extreme-event anomalies of a kind about a record
EventsOf(d, anomaly_type) ==
    SelectSeq(last.extreme_events, LAMBDA a :
        a.weather_data_id = d._id /\ a.anomaly_type = anomaly_type)
Count(b) == IF b THEN 1 ELSE 0
\* the extreme-event rule for the records of the run's location
ExtremeRule ==
    \A docs \in {FindWeather(weather, last.location)} :
        \A i \in 1..Len(docs) :
            LET d == docs[i]
                month == SameMonth(docs, d)
                long == Len(month) >= MinMonthRecords
                temps == EventsOf(d, "temperature")
                precs == EventsOf(d, "precipitation")
            IN /\ Len(temps) = Count(long /\ PassesCheck(d, month, "tasmax_avg"))
                                 + Count(long /\ PassesCheck(d, month, "tasmin_avg"))
               /\ Len(precs) = Count(long /\ PassesCheck(d, month, "pr_total"))
               /\ \A k \in 1..Len(temps) :
                     /\ temps[k].severity = "extreme"
                     /\ temps[k].value \in {d.tasmax_avg, d.tasmin_avg}
               /\ \A k \in 1..Len(precs) :
                     /\ precs[k].severity = "extreme"
                     /\ precs[k].value = d.pr_total
\* a month of 10 records or more of the location has a variable with equal values
ZeroStdMonth(location) ==
    \E docs \in {FindWeather(weather, location)} :
        \E i \in 1..Len(docs) : \E field \in {"tasmax_avg", "tasmin_avg", "pr_total"} :
            /\ Len(SameMonth(docs, docs[i])) >= MinMonthRecords
            /\ AllEqual(FieldValues(SameMonth(docs, docs[i]), field))

\* C12: in a month of 10 records or more every record holding the month's
\* maximum tasmax, minimum tasmin or maximum pr gets one anomaly per such
\* check iff the extreme's |z| against the month's raw mean and sample std is
\* >= 2.0, always with severity extreme, and no other record gets one
C12_ExtremeRule == ExtremeRan => ExtremeRule

\* C12, where the detector divides by no zero std: the rule holds for every
\* run over a location none of whose months of 10 records or more has a
\* variable with equal values
C12_RuleWithoutZeroStd == (ExtremeRan /\ ~ZeroStdMonth(last.location)) => ExtremeRule

\* a run emitted extreme events, with a record that holds an extreme and one
\* that holds none
C12_Witness ==
    /\ ExtremeRan
    /\ ~ZeroStdMonth(last.location)
    /\ \E k \in 1..Len(last.extreme_events) :
          last.extreme_events[k].anomaly_type = "precipitation"
    /\ \E k \in 1..Len(last.extreme_events) :
          last.extreme_events[k].anomaly_type = "temperature"
    /\ \E i \in 1..Len(weather) :
          /\ weather[i].location = last.location
          /\ EventsOf(weather[i], "temperature") = <<>>
          /\ Len(SameMonth(FindWeather(weather, last.location), weather[i])) >= MinMonthRecords

\* C13: when a month of 10 records or more has a variable with equal values
\* (std 0), nothing is flagged for that variable in that month and the
\* anomalies of the other variables and months are still returned: the
\* extreme-event rule holds for such a location as for any other
C13_DegenerateVariance == (ExtremeRan /\ ZeroStdMonth(last.location)) => ExtremeRule

\* C14 as stated: when a month of 10 records or more has a variable with
\* equal values, every record of that month gets an extreme-event anomaly of
\* the variable's kind
C14_AsStated ==
    ExtremeRan =>
        \A docs \in {FindWeather(weather, last.location)} :
            \A i \in 1..Len(docs) : \A field \in {"tasmax_avg", "tasmin_avg", "pr_total"} :
                (/\ Len(SameMonth(docs, docs[i])) >= MinMonthRecords
                 /\ AllEqual(FieldValues(SameMonth(docs, docs[i]), field)))
                => EventsOf(docs[i], IF field = "pr_total" THEN "precipitation"
                                     ELSE "temperature") # <<>>

\* C14: when a month of 10 records or more has a variable with equal values,
\* no record of that month gets an extreme-event anomaly with that value for
\* the variable's kind
C14_DegenerateExtreme ==
    ExtremeRan =>
        \A docs \in {FindWeather(weather, last.location)} :
            \A i \in 1..Len(docs) : \A field \in {"tasmax_avg", "tasmin_avg", "pr_total"} :
                (/\ Len(SameMonth(docs, docs[i])) >= MinMonthRecords
                 /\ AllEqual(FieldValues(SameMonth(docs, docs[i]), field)))
                => \A k \in 1..Len(last.extreme_events) :
                      LET a == last.extreme_events[k] IN
                      ~(/\ a.weather_data_id = docs[i]._id
                        /\ a.anomaly_type = (IF field = "pr_total" THEN "precipitation"
                                             ELSE "temperature")
                        /\ a.value = docs[i][field])

\* a run over a location with a month of 10 records where one variable has
\* equal values and another has an outlier
C14_Witness ==
    /\ ExtremeRan
    /\ ZeroStdMonth(last.location)
    /\ \E docs \in {FindWeather(weather, last.location)} :
          \E i \in 1..Len(docs) :
              /\ Len(SameMonth(docs, docs[i])) >= MinMonthRecords
              /\ PassesCheck(docs[i], SameMonth(docs, docs[i]), "pr_total")

(* --------------------------- several workers --------------------------- *)
\* worker w has finished its run
Done(w) == pending[w].pc = "done"
\* worker w inserted while another run for the same location had cleared and
\* not yet inserted
Raced(w) ==
    /\ Done(w)
    /\ \E v \in pending[w].during : pending[v].location = pending[w].location
\* no other worker has started a run for the location of worker w
AloneOnLocation(w) ==
    \A v \in Workers \ {w} :
        pending[v].pc = "idle" \/ pending[v].location # pending[w].location
\* what a run for the location alone, on an empty collection, stores
StoredAlone(location) ==
    run_full_anomaly_detection(weather, <<>>, 1, location, {}).inserted
\* the collection holds two anomalies of the location under one key
HasDuplicates(location) ==
    \E i, j \in 1..Len(anomalies) :
        /\ i # j
        /\ anomalies[i].location = location
        /\ anomalies[j].location = location
        /\ SameKey(anomalies[i], anomalies[j])

\* a step of a worker's run leaves the anomalies of every other location as they are
C15_Step ==
    \A w \in Workers :
        pending'[w] # pending[w] =>
            \A location \in Locs \ {pending'[w].location} :
                DocsOf(anomalies', location) = DocsOf(anomalies, location)
\* after a worker's run for a location no other worker touched, the location
\* holds what the run alone stores
C15_Final ==
    \A w \in Workers :
        (Done(w) /\ AloneOnLocation(w)) =>
            ContentsOf(anomalies, pending[w].location) = StoredAlone(pending[w].location)

\* C15: no step of a run for location L deletes or inserts an anomaly of
\* another location, and however the steps of runs for different locations
\* interleave, each location ends with what its run alone stores
C15_Independence == []C15_Final /\ [][C15_Step]_vars

\* two runs for different locations overlapped and both stored anomalies
C15_Witness ==
    \E w \in Workers : \E v \in Workers \ {w} :
        /\ Done(w)
        /\ Done(v)
        /\ v \in pending[w].during
        /\ pending[v].location # pending[w].location
        /\ pending[w].inserted # <<>>
        /\ pending[v].inserted # <<>>

\* C16: the collection holds two anomalies of a location under one key only
\* after two runs for that location overlapped (both cleared before either
\* inserted), and then it does whenever the runs detected something
C16_Race ==
    /\ \A location \in Locs :
          HasDuplicates(location) =>
              \E w \in Workers : Raced(w) /\ pending[w].location = location
    /\ \A w \in Workers :
          (Raced(w) /\ pending[w].inserted # <<>> /\ \A v \in Workers : Done(v))
              => HasDuplicates(pending[w].location)

\* two overlapping runs for one location left two entries under one key
C16_Witness ==
    \E w \in Workers :
        /\ Raced(w)
        /\ \A v \in Workers : Done(v)
        /\ HasDuplicates(pending[w].location)

(* ----------------------- moving-average detector ----------------------- *)
MovingAverageRan == last.op = "detect_moving_average_anomalies" /\ ~last.fails
\* every document of a list carries tas_avg
AllCarry(docs) == \A j \in 1..Len(docs) : "tas_avg" \in DOMAIN docs[j]
\* v[lo .. hi] of the 0-based series v, both ends included
Window(v, lo, hi) == SubSeq(v, lo + 1, hi + 1)
\* the window of 0-based index i of a series of n values: the indices from
\* max(0, i - W div 2) to min(n - 1, i + W div 2)
WindowOf(v, i, W) ==
    Window(v, IF i - W \div 2 < 0 THEN 0 ELSE i - W \div 2,
              IF i + W \div 2 > Len(v) - 1 THEN Len(v) - 1 ELSE i + W \div 2)
\* the moving-average anomalies of the last call about a record
MovingOf(d) == SelectSeq(last.out, LAMBDA a : a.weather_data_id = d._id)

\* C17: for a series of n >= W records that carry tas_avg, the moving-average
\* detector emits an anomaly for index i iff W <= i < n - W, the sample std of
\* the window of i is > 0 and |z| >= 2.0; the anomaly is one, its severity is
\* extreme for |z| >= 2.5 and high below; nothing is emitted for the first W
\* and the last W indices
C17_MovingAverageRule ==
    MovingAverageRan =>
        \A docs \in {FindWeather(weather, last.location)} :
            (Len(docs) >= last.window_size /\ AllCarry(docs)) =>
                \A v \in {FieldValues(docs, "tas_avg")} :
                \A i \in 0..(Len(docs) - 1) :
                    LET W == last.window_size
                        window == WindowOf(v, i, W)
                        interior == W <= i /\ i < Len(docs) - W
                        about == MovingOf(docs[i + 1])
                    IN /\ Len(about) =
                            Count(interior /\ RawZAtLeast(v[i + 1], window, MovingAverageHalves))
                       /\ \A k \in 1..Len(about) :
                            about[k].severity =
                                IF RawZAtLeast(v[i + 1], window, ExtremeHalves)
                                THEN "extreme" ELSE "high"
C17_Witness ==
    /\ MovingAverageRan
    /\ \E k \in 1..Len(last.out) : last.out[k].severity = "high"
    /\ \E docs \in {FindWeather(weather, last.location)} :
       \E v \in {FieldValues(docs, "tas_avg")} :
           \* a boundary record that would pass the test, and an interior one that fails it
           /\ \E i \in 0..(last.window_size - 1) :
                 RawZAtLeast(v[i + 1], WindowOf(v, i, last.window_size), MovingAverageHalves)
           /\ \E i \in last.window_size..(Len(docs) - last.window_size - 1) :
                 /\ DevSS(WindowOf(v, i, last.window_size)) > 0
                 /\ MovingOf(docs[i + 1]) = <<>>

\* C18: the moving-average detector returns an empty list when the location
\* has fewer than W records or when none of its records carries tas_avg; a
\* call whose find raises returns an empty list as well
NoneCarries(docs) == \A j \in 1..Len(docs) : "tas_avg" \notin DOMAIN docs[j]
C18_MovingAverageGuards ==
    last.op = "detect_moving_average_anomalies" =>
        \A docs \in {FindWeather(weather, last.location)} :
            (Len(docs) < last.window_size \/ NoneCarries(docs) \/ last.fails)
                => last.out = <<>>
\* a series without tas_avg whose tasmax_avg has an interior point two sample
\* deviations off its window, beside a location with fewer than W records
C18_Witness ==
    /\ last.op = "detect_moving_average_anomalies"
    /\ ~last.fails
    /\ last.out = <<>>
    /\ \E docs \in {FindWeather(weather, last.location)} :
          /\ Len(docs) > 2 * last.window_size
          /\ NoneCarries(docs)
          /\ \E v \in {FieldValues(docs, "tasmax_avg")} :
             \E i \in last.window_size..(Len(docs) - last.window_size - 1) :
                RawZAtLeast(v[i + 1], WindowOf(v, i, last.window_size), MovingAverageHalves)
    /\ \E location \in Locs :
          /\ FindWeather(weather, location) # <<>>
          /\ Len(FindWeather(weather, location)) < last.window_size

(* --------------------------- monthly baseline -------------------------- *)
\* the variable a primary-path anomaly is about
VarOf(a) == IF a.anomaly_type = "precipitation" THEN "pr" ELSE a.metric_type
\* q is the arithmetic mean of the values xs
IsMeanOf(q, xs) == q.kind = "rat" /\ q.num * Len(xs) = SumSeq(xs) * q.den

\* C19: the monthly baseline of a variable is the arithmetic mean of the
\* variable over every record of the location with that month, whatever the
\* year, the scored record included; expected_value of every primary-path
\* anomaly is the baseline of its record's month
C19_MonthlyBaseline ==
    /\ \A location \in Locs :
        \A docs \in {FindWeather(weather, location)} :
        \A table \in {calculate_monthly_historical_averages(
                          get_weather_dataframe(Fetched(weather, location, FALSE)))} :
        \A i \in 1..Len(docs) : \A var \in {"pr", "tasmax", "tasmin"} :
            IsMeanOf(table[docs[i].month][var], MonthValues(docs[i], var))
    /\ PrimaryRan =>
            \A k \in 1..Len(last.notebook_anomalies) :
                LET a == last.notebook_anomalies[k]
                    xs == MonthValues(RecordOf(a.weather_data_id), VarOf(a))
                IN /\ IsMeanOf(a.expected_value, xs)
                   /\ a.monthly_historical_avg = a.expected_value
\* an anomaly whose record weighs in its own baseline, in a location that has
\* records of another month with other values
C19_Witness ==
    /\ PrimaryRan
    /\ \E k \in 1..Len(last.notebook_anomalies) :
          LET a == last.notebook_anomalies[k]
              d == RecordOf(a.weather_data_id)
              xs == MonthValues(d, VarOf(a))
              others == SelectSeq(xs, LAMBDA x : x # a.value)
          IN /\ a.expected_value.num # 0
             /\ others # <<>>
             /\ ~IsMeanOf(a.expected_value, others)
             /\ \E j \in 1..Len(weather) :
                   /\ weather[j].location = d.location
                   /\ weather[j].month # d.month
                   /\ weather[j][Field(VarOf(a))] # a.expected_value.num

(* -------------------------- severity classifier ------------------------ *)
Classified == last.op = "determine_severity"
\* z^2 as the fraction SqNum / SqDen, for a finite z
SqNum(z) == IF z.kind = "rat" THEN z.num * z.num ELSE z.num
SqDen(z) == IF z.kind = "rat" THEN z.den * z.den ELSE z.den
Finite(z) == z.kind \in {"rat", "surd"}
\* |z| < halves / 2
AbsBelow(z, halves) == Finite(z) /\ 4 * SqNum(z) < halves * halves * SqDen(z)
\* |z| <= |w|
AbsLE(z, w) ==
    \/ w.kind = "inf" /\ z.kind # "nan"
    \/ Finite(z) /\ Finite(w) /\ SqNum(z) * SqDen(w) <= SqNum(w) * SqDen(z)
\* w = -z
Negated(z, w) ==
    CASE z.kind = "rat" -> w.kind = "rat" /\ w.num = -z.num /\ w.den = z.den
      [] z.kind = "surd" -> w.kind = "surd" /\ w.num = z.num /\ w.den = z.den
                            /\ w.sgn = -z.sgn
      [] z.kind = "inf" -> w.kind = "inf" /\ w.sgn = -z.sgn
      [] OTHER -> w.kind = z.kind
SeverityRank(severity) ==
    CASE severity = "low" -> 0 [] severity = "medium" -> 1
      [] severity = "high" -> 2 [] severity = "extreme" -> 3

\* C20: determine_severity(z) = determine_severity(-z); the result is extreme
\* for |z| >= 2.5, high for 2.0 <= |z| < 2.5, medium for 1.5 <= |z| < 2.0 and
\* low for |z| < 1.5; every z has a result, and the result does not decrease
\* as |z| grows
C20_Severity ==
    Classified =>
        LET z == last.z_score
            w == last.other
        IN /\ last.severity \in {"low", "medium", "high", "extreme"}
           /\ Negated(z, w) => last.other_severity = last.severity
           /\ z.kind # "nan" =>
                last.severity =
                    IF AbsBelow(z, MediumHalves) THEN "low"
                    ELSE IF AbsBelow(z, HighHalves) THEN "medium"
                    ELSE IF AbsBelow(z, ExtremeHalves) THEN "high"
                    ELSE "extreme"
           /\ AbsLE(z, w) => SeverityRank(last.severity) <= SeverityRank(last.other_severity)
\* a negative z-score at a threshold classified with its negation
C20_Witness ==
    /\ Classified
    /\ last.z_score = Rat(-20, 8)
    /\ Negated(last.z_score, last.other)
    /\ last.severity = "extreme"

(* ----------------------- order of the stored records ------------------ *)
\* the documents of a list by ascending _id: the order of the rows as numbered
RECURSIVE ById(_)
ById(docs) ==
    IF docs = <<>> THEN <<>>
    ELSE LET least == CHOOSE d \in {docs[i] : i \in 1..Len(docs)} :
                          \A i \in 1..Len(docs) : d._id <= docs[i]._id
         IN <<least>> \o ById(SelectSeq(docs, LAMBDA d : d._id # least._id))
\* the set of the anomalies of a list, storage ids aside
AsSet(list) == {Content(list[i]) : i \in 1..Len(list)}
\* what a clean run for a location stores, as a set, when the collection
\* holds the records in the order coll
StoredSet(coll, location) ==
    AsSet(DocsOf(run_full_anomaly_detection(coll, <<>>, 1, location, {}).anomaly_coll,
                 location))

\* C21: the set of anomalies a run stores for a location is the one it stores
\* when the same records are fetched in the order of their numbers, whatever
\* the order they are fetched in; so is the survivor of each key
C21_OrderIndependence ==
    CleanRun =>
        AsSet(DocsOf(anomalies, last.location)) = StoredSet(ById(weather), last.location)
\* a run over records fetched in another order than that of their numbers,
\* the months of a year exchanged, which stored the survivor of a key that
\* two anomalies share
C21_Witness ==
    /\ CleanRun
    /\ \E docs \in {FindWeather(weather, last.location)} :
          /\ docs # FindWeather(ById(weather), last.location)
          /\ \E i, j \in 1..Len(docs) :
                i < j /\ docs[i].year = docs[j].year /\ docs[i].month > docs[j].month
    /\ Len(last.inserted) >= 2
    /\ Len(last.inserted) < Len(last.notebook_anomalies \o last.extreme_events)

\* the record ids, values and z-scores of a list of anomalies
Findings(list) ==
    {[weather_data_id |-> list[i].weather_data_id, value |-> list[i].value,
      z_score |-> list[i].z_score] : i \in 1..Len(list)}

\* C22: the moving-average detector returns the same anomalies (record ids,
\* values, z-scores) for two orders of a location's records that are both
\* sorted by year: the order the records are fetched in and the order of
\* their numbers within each year
C22_MovingAverageOrder ==
    MovingAverageRan =>
        Findings(last.out) =
            Findings(detect_moving_average_anomalies(
                        Fetched(ById(weather), last.location, FALSE),
                        last.location, last.window_size))

(* ------------------------ the two statistical passes ------------------- *)
\* the rows of a location with the columns calculate_anomalies_with_zscores adds
ScoredRows(coll, location) ==
    calculate_anomalies_with_zscores(
        get_weather_dataframe(Fetched(coll, location, FALSE)))
\* the values of a variable over the rows of a month
ColumnOfMonth(rows, month, var) ==
    LET same == SelectSeq(rows, LAMBDA r : r.row.month = month)
    IN List([j \in 1..Len(same) |-> same[j].row[var]])
\* the columns of a row when the std of the month is taken in one pass, as
\* the sample std of the month's raw values
OnePass(rows, i, var) ==
    LET xs == ColumnOfMonth(rows, rows[i].row.month, var)
    IN ZScoreColumns(rows[i].row[var], xs, rows[i].cols[var].monthly_avg_historical,
                     PandasStd(xs, 1))
\* for some row of the location the one-pass std gives another z-score or
\* another significance flag than the std of the second pass
PassesDiffer(coll, location) ==
    \E rows \in {ScoredRows(coll, location)} :
    \E i \in 1..Len(rows) : \E var \in {"pr", "tasmax", "tasmin"} :
        \/ OnePass(rows, i, var).anomaly_zscore # rows[i].cols[var].anomaly_zscore
        \/ OnePass(rows, i, var).anomaly_significant # rows[i].cols[var].anomaly_significant

\* C23 as stated: for some dataset (the stored records of the other
\* locations with any of the datasets of location "A"), taking the sample std
\* of the month's raw values instead of the sample std of the month's
\* deviations from the baseline changes a z-score or the emitted anomaly set
C23_AsStated ==
    \E n1 \in 0..MaxRecs, n2 \in 0..MaxM2, p \in Profiles :
    \E location \in Locs :
        PassesDiffer(SelectSeq(weather, LAMBDA d : d.location # "A")
                        \o DatasetA(n1, n2, p), location)
\* C23: the sample std of the month's deviations from the baseline is the
\* sample std of the month's raw values, so every row gets the same z-score
\* and the same significance flag from either, for every dataset
C23_PassesAgree ==
    \A location \in Locs : ~PassesDiffer(weather, location)
\* a run that emitted an anomaly for a month of unequal values whose baseline
\* is not 0, so that the deviations are not the raw values
C23_Witness ==
    /\ PrimaryRan
    /\ \E k \in 1..Len(last.notebook_anomalies) :
          LET a == last.notebook_anomalies[k]
          IN /\ a.expected_value.num # 0
             /\ a.z_score.kind = "surd"
             /\ a.monthly_anomaly_std.kind = "surd"
             /\ a.monthly_anomaly_std.num # 0

(* ---------------------------- reported counts -------------------------- *)
\* the (record id, kind) keys of a list of anomalies
KeysOf(list) ==
    {<<list[i].weather_data_id, list[i].anomaly_type>> : i \in 1..Len(list)}
\* two anomalies of a list share a key
SharesKey(list) ==
    \E i, j \in 1..Len(list) : i # j /\ SameKey(list[i], list[j])

\* C24: a run that returns success reports the size of the primary set, the
\* size of the extreme-event set and their sum, and a saved_count that is the
\* number of distinct keys of the union: saved_count <= total_detected, with
\* equality iff no two anomalies of the union share a key
C24_ReportedCounts ==
    (RunDone /\ last.result.success) =>
        LET union == last.notebook_anomalies \o last.extreme_events
            r == last.result
        IN /\ r.notebook_anomalies_count = Len(last.notebook_anomalies)
           /\ r.extreme_events_count = Len(last.extreme_events)
           /\ r.total_detected = r.notebook_anomalies_count + r.extreme_events_count
           /\ r.save_result.saved_count = Cardinality(KeysOf(union))
           /\ r.save_result.saved_count <= r.total_detected
           /\ (r.save_result.saved_count = r.total_detected) <=> ~SharesKey(union)

(* ---------------------------- significance flag ------------------------ *)
\* |z| >= 2.0 for a stored z-score
StoredZAtLeastTwo(z) ==
    \/ z.kind = "inf"
    \/ z.kind = "surd" /\ z.num >= 4 * z.den
    \/ z.kind = "rat" /\ Abs(z.num) >= 2 * z.den
\* the anomalies the last call produced, of whichever detector
Produced ==
    IF RunDone THEN last.notebook_anomalies \o last.extreme_events
    ELSE IF last.op = "detect_moving_average_anomalies" THEN last.out
    ELSE <<>>

\* C25: every anomaly a detector produces (primary path, extreme events,
\* moving average) carries is_significant = true exactly when its stored
\* |z_score| is >= 2.0
C25_SignificanceFlag ==
    \A k \in 1..Len(Produced) :
        Produced[k].is_significant <=> StoredZAtLeastTwo(Produced[k].z_score)

(* ------------------------ shadowed extreme events ---------------------- *)
\* the last call was a run in which no storage call raised but, possibly,
\* the find of the time series
BothDetectorsRan ==
    RunDone /\ last.faults \cap {"delete_many", "find_notebook", "find_extreme", "insert_many"} = {}

\* C26: every extreme-event anomaly of a run has the (record id, kind) key of
\* a primary-path anomaly of the run, which is before it in the union; no
\* extreme-event anomaly is stored, and what is stored for the location is the
\* primary set, the first anomaly of each key
C26_ExtremeShadowed ==
    BothDetectorsRan =>
        LET primary == last.notebook_anomalies
            stored == ContentsOf(anomalies, last.location)
        IN /\ \A k \in 1..Len(last.extreme_events) :
                \E j \in 1..Len(primary) : SameKey(primary[j], last.extreme_events[k])
           /\ \A s \in 1..Len(stored) :
                \E j \in 1..Len(primary) :
                    /\ stored[s] = primary[j]
                    /\ \A i \in 1..(j - 1) : ~SameKey(primary[i], primary[j])
           /\ Len(stored) = Cardinality(KeysOf(primary))
\* a run that emitted extreme events and stored the anomalies of the primary
\* path, one of them with the key of an extreme event but the flag of the
\* primary path
C26_Witness ==
    /\ BothDetectorsRan
    /\ last.extreme_events # <<>>
    /\ \E k \in 1..Len(last.extreme_events) : \E i \in 1..Len(anomalies) :
          /\ SameKey(anomalies[i], last.extreme_events[k])
          /\ anomalies[i].is_significant
          /\ ~last.extreme_events[k].is_significant

(* ----------------------- sample size, primary path -------------------- *)
\* C27: the primary path never emits an anomaly for a record whose calendar
\* month has fewer than 6 records for the location, whatever the values
C27_PrimarySampleSize ==
    PrimaryRan =>
        \A k \in 1..Len(last.notebook_anomalies) :
            Len(MonthValues(RecordOf(last.notebook_anomalies[k].weather_data_id), "pr"))
                >= 6

(* ------------------- moving-average windows and lengths ---------------- *)
\* C28: for every index i with W <= i < n - W the window the detector takes
\* for i is v[i - W div 2 .. i + W div 2], inside the series, of exactly
\* 2 * (W div 2) + 1 values; a window cut at an end of the series belongs to
\* an index outside that range
C28_WindowsNotClamped ==
    MovingAverageRan =>
        \A docs \in {FindWeather(weather, last.location)} :
            (Len(docs) >= last.window_size /\ AllCarry(docs)) =>
                \A v \in {FieldValues(docs, "tas_avg")} :
                \A i \in 0..(Len(v) - 1) :
                    LET W == last.window_size
                        window_data == WindowData(v, i, W)
                    IN /\ (W <= i /\ i < Len(v) - W) =>
                            /\ i - W \div 2 >= 0
                            /\ i + W \div 2 <= Len(v) - 1
                            /\ Len(window_data) = 2 * (W \div 2) + 1
                            /\ window_data = Window(v, i - W \div 2, i + W \div 2)
                       /\ Len(window_data) < 2 * (W \div 2) + 1 =>
                            ~(W <= i /\ i < Len(v) - W)
\* a call on a series with flaggable indices and with windows cut at both ends
C28_Witness ==
    /\ MovingAverageRan
    /\ last.out # <<>>
    /\ \E docs \in {FindWeather(weather, last.location)} :
       \E v \in {FieldValues(docs, "tas_avg")} :
          /\ Len(v) > 2 * last.window_size + 1
          /\ Len(WindowData(v, 0, last.window_size)) < 2 * (last.window_size \div 2) + 1
          /\ Len(WindowData(v, Len(v) - 1, last.window_size))
                < 2 * (last.window_size \div 2) + 1

\* C29: the detector returns no anomaly for a location with at most 2 * W
\* records, also when the explicit guard (fewer than W records) lets the
\* series through
C29_EffectiveMinimum ==
    MovingAverageRan =>
        (Len(FindWeather(weather, last.location)) <= 2 * last.window_size
            => last.out = <<>>)
\* a series of W to 2 * W records with a point two sample deviations off its
\* window, for which nothing is returned
C29_Witness ==
    /\ MovingAverageRan
    /\ last.out = <<>>
    /\ \E docs \in {FindWeather(weather, last.location)} :
          /\ Len(docs) >= last.window_size
          /\ Len(docs) <= 2 * last.window_size
          /\ AllCarry(docs)
          /\ \E v \in {FieldValues(docs, "tas_avg")} : \E i \in 0..(Len(v) - 1) :
                RawZAtLeast(v[i + 1], WindowOf(v, i, last.window_size), MovingAverageHalves)

(* --------------------------- record consistency ------------------------ *)
\* the sign of a stored number
SignOf(x) ==
    CASE x.kind = "rat" -> Sign(x.num)
      [] x.kind \in {"surd", "inf", "ulp"} -> x.sgn
      [] OTHER -> 0
\* deviation is value - expected_value: the exact difference, or its rounding
\* residue where the float mean of equal values is off the value
IsDifference(a) ==
    \/ /\ a.deviation.kind = "rat"
       /\ a.expected_value.kind = "rat"
       /\ a.deviation.num * a.expected_value.den
            = (a.value * a.expected_value.den - a.expected_value.num) * a.deviation.den
    \/ /\ a.deviation.kind = "ulp"
       /\ a.expected_value.kind = "rat"
       /\ a.value * a.expected_value.den = a.expected_value.num
\* z >= 2.0, z <= -2.0
AtLeastTwo(z) == SignOf(z) > 0 /\ StoredZAtLeastTwo(z)
AtMostMinusTwo(z) == SignOf(z) < 0 /\ StoredZAtLeastTwo(z)
\* the extreme-event anomalies of the last call
ExtremeProduced == IF RunDone THEN last.extreme_events ELSE <<>>

\* C30: every anomaly a detector produces has deviation = value -
\* expected_value and a non-zero z_score of the sign of its deviation; an
\* extreme event for a record high (maximum tasmax or pr of the month) has
\* z_score >= 2.0 and one for a record low (minimum tasmin) z_score <= -2.0
C30_RecordConsistency ==
    /\ \A k \in 1..Len(Produced) :
          /\ IsDifference(Produced[k])
          /\ SignOf(Produced[k].z_score) # 0
          /\ SignOf(Produced[k].z_score) = SignOf(Produced[k].deviation)
    /\ \A k \in 1..Len(ExtremeProduced) :
          LET a == ExtremeProduced[k]
              d == RecordOf(a.weather_data_id)
              month == SameMonth(FindWeather(weather, last.location), d)
          IN IF a.anomaly_type = "precipitation"
             THEN a.value = MaxSeq(FieldValues(month, "pr_total")) /\ AtLeastTwo(a.z_score)
             ELSE \/ /\ a.value = MaxSeq(FieldValues(month, "tasmax_avg"))
                     /\ AtLeastTwo(a.z_score)
                  \/ /\ a.value = MinSeq(FieldValues(month, "tasmin_avg"))
                     /\ AtMostMinusTwo(a.z_score)
\* a run that returned a record low beside a record high, on a collection
\* for which the moving-average detector returns an anomaly below its window
\* mean
C30_Witness ==
    /\ RunDone
    /\ \E k, l \in 1..Len(last.extreme_events) :
          /\ AtMostMinusTwo(last.extreme_events[k].z_score)
          /\ AtLeastTwo(last.extreme_events[l].z_score)
    /\ \E k \in 1..Len(last.notebook_anomalies) :
          SignOf(last.notebook_anomalies[k].deviation) < 0
    /\ \E out \in {detect_moving_average_anomalies(Fetched(weather, "B", FALSE), "B", 6)} :
          out # <<>> /\ SignOf(out[1].z_score) < 0

====
